---- MODULE Spec2Model ----
(***************************************************************************)
(* The client-side chunk re-meshing pipeline of open-builder               *)
(* (src/src/client/client.cpp): block updates -> update queue -> budgeted  *)
(* meshing -> pending buffers -> drawable registries, and ray picking.     *)
(*                                                                         *)
(* World coordinates are floats in the source; here they are fixed-point   *)
(* integers with Fixed units per block, so that toBlockPosition is a real  *)
(* floor and not the identity.  Chunk and block positions are integer      *)
(* triples <<x, y, z>>.                                                    *)
(***************************************************************************)
EXTENDS Integers, Sequences, FiniteSets, TLC

(***************************************************************************)
(* Bounds of the model.                                                    *)
(***************************************************************************)
\* Edge length of a chunk in blocks (set outside client.cpp).
CHUNK_SIZE == 4
\* Fixed-point units per block of a world coordinate.
Fixed == 2
\* Most block updates that are pending when one frame's update applies them.
MaxBlockUpdates == 4
\* Most block updates the server's packets of one tick hold.
MaxDeliveries == 3
\* Most mouse releases the window reports in one frame.
MaxMouseReleases == 1

(***************************************************************************)
(* Program constants of client.cpp.                                        *)
(***************************************************************************)
\* "if (count++ > 3) break;"
BUDGET_LIMIT == 3
\* "ray.getLength() < 8"
RAY_MAX_LENGTH == 8

VARIABLES
    phase,              \* position in the frame loop: "input", "update", "render";
                        \* "ended" once endGame has run
    hasReceivedGameData,\* m_hasReceivedGameData
    position,           \* mp_player->position (fixed-point)
    velocity,           \* mp_player->velocity (fixed-point, per frame)
    rotation,           \* mp_player->rotation, as the ray direction it yields
    loaded,             \* m_chunks.manager: the chunks it holds
    blocks,             \* m_chunks.manager: the non-air blocks, block position -> type
    blockUpdates,       \* m_chunks.blockUpdates
    updates,            \* m_chunks.updates
    noMeshingCount,     \* m_noMeshingCount
    blockMeshing,       \* m_blockMeshing
    bufferables,        \* m_chunks.bufferables
    drawables,          \* m_chunks.drawables
    fluidDrawables,     \* m_chunks.fluidDrawables
    gpuLive,            \* the vertex array handles that exist on the GPU
    netOut,             \* packets queued for the server since the last tick
    scanned             \* history: the last update ran the scan of the queue

vars == <<phase, hasReceivedGameData, position, velocity, rotation, loaded,
          blocks, blockUpdates, updates, noMeshingCount, blockMeshing,
          bufferables, drawables, fluidDrawables, gpuLive, netOut, scanned>>

(***************************************************************************)
(* Vectors and coordinate conversions.                                     *)
(***************************************************************************)
Abs(n) == IF n < 0 THEN -n ELSE n

Plus(a, b) == <<a[1] + b[1], a[2] + b[2], a[3] + b[3]>>

Scaled(a, k) == <<a[1] * k, a[2] * k, a[3] * k>>

Range(s) == {s[i] : i \in 1..Len(s)}

\* world position -> block position: the floor of each coordinate
toBlockPosition(v) == <<v[1] \div Fixed, v[2] \div Fixed, v[3] \div Fixed>>

\* block position -> position of the chunk that holds it
toChunkPosition(b) ==
    <<b[1] \div CHUNK_SIZE, b[2] \div CHUNK_SIZE, b[3] \div CHUNK_SIZE>>

\* block position -> position inside its chunk, each in 0..CHUNK_SIZE-1
toLocalBlockPosition(b) ==
    <<b[1] % CHUNK_SIZE, b[2] % CHUNK_SIZE, b[3] % CHUNK_SIZE>>

worldToChunkPosition(v) == toChunkPosition(toBlockPosition(v))

\* a block position as a world position (the block's lower corner)
toWorld(b) == Scaled(b, Fixed)

(***************************************************************************)
(* The chunk manager (the collaborator behind m_chunks.manager).           *)
(***************************************************************************)
Neighbours(cp) ==
    { <<cp[1] - 1, cp[2], cp[3]>>, <<cp[1] + 1, cp[2], cp[3]>>,
      <<cp[1], cp[2] - 1, cp[3]>>, <<cp[1], cp[2] + 1, cp[3]>>,
      <<cp[1], cp[2], cp[3] - 1>>, <<cp[1], cp[2], cp[3] + 1>> }

\* the chunks held after ensureNeighbours(cp): cp and its six neighbours added
ensureNeighbours(cp, chunks) == chunks \cup {cp} \cup Neighbours(cp)

hasNeighbours(cp, chunks) == Neighbours(cp) \subseteq chunks

\* type of the block at a block position, 0 (air) where none is stored
getBlock(b, grid) == IF b \in DOMAIN grid THEN grid[b] ELSE 0

setBlock(b, t, grid) ==
    IF t = 0
    THEN [q \in DOMAIN grid \ {b} |-> grid[q]]
    ELSE [q \in DOMAIN grid \cup {b} |-> IF q = b THEN t ELSE grid[q]]

(***************************************************************************)
(* The mesh builder: two index counts per chunk, opaque and fluid.         *)
(***************************************************************************)
\* block types: 0 air, 1 the solid block a place action puts down, 2 a fluid
IsFluid(t) == t = 2

IsSolid(t) == t > 0 /\ ~IsFluid(t)

BlocksOf(cp, grid) == {b \in DOMAIN grid : toChunkPosition(b) = cp}

\* 36 indices (6 faces of 2 triangles) for each block that shows
makeChunkMesh(cp, grid) ==
    [blockMesh |->
        [position |-> cp,
         indicesCount |->
            36 * Cardinality({b \in BlocksOf(cp, grid) : IsSolid(grid[b])})],
     fluidMesh |->
        [position |-> cp,
         indicesCount |->
            36 * Cardinality({b \in BlocksOf(cp, grid) : IsFluid(grid[b])})]]

(***************************************************************************)
(* The GPU collaborator: vertex array handles.                             *)
(***************************************************************************)
\* createBuffer(): the handle of the new vertex array, a name not in use
createBuffer(gpu) == CHOOSE h \in 1..(Cardinality(gpu) + 1) : h \notin gpu

(***************************************************************************)
(* The drawable registry: findChunkDrawableIndex and deleteChunkRenderable *)
(* of the anonymous namespace.  Indices are 0-based as in the source, so   *)
(* element index is list[index + 1].                                       *)
(***************************************************************************)
findChunkDrawableIndex(cp, list) ==
    IF \E i \in 1..Len(list) : list[i].position = cp
    THEN (CHOOSE i \in 1..Len(list) :
            /\ list[i].position = cp
            /\ \A j \in 1..(i - 1) : list[j].position # cp) - 1
    ELSE -1

\* a removal that destroys the found entry's vertex array and pops the last
\* entry without the swap
deleteChunkRenderablePopLast(cp, list, gpu) ==
    LET index == findChunkDrawableIndex(cp, list) IN
    IF index > -1
    THEN [list |-> SubSeq(list, 1, Len(list) - 1),
          gpu |-> gpu \ {list[index + 1].vao}]
    ELSE [list |-> list, gpu |-> gpu]

\* a removal that pops the found entry and leaves its vertex array alive
deleteChunkRenderableLeaking(cp, list, gpu) ==
    LET index == findChunkDrawableIndex(cp, list) IN
    IF index > -1
    THEN LET swapped == [list EXCEPT ![index + 1] = list[Len(list)],
                                     ![Len(list)] = list[index + 1]]
         IN  [list |-> SubSeq(swapped, 1, Len(list) - 1), gpu |-> gpu]
    ELSE [list |-> list, gpu |-> gpu]

\* the list and the GPU handles after deleteChunkRenderable(cp, list):
\* the found entry's vertex array destroyed, the entry swapped with the last
\* and popped
deleteChunkRenderable(cp, list, gpu) ==
    LET index == findChunkDrawableIndex(cp, list) IN
    IF index > -1
    THEN LET swapped == [list EXCEPT ![index + 1] = list[Len(list)],
                                     ![Len(list)] = list[index + 1]]
         IN  [list |-> SubSeq(swapped, 1, Len(list) - 1),
              gpu |-> gpu \ {list[index + 1].vao}]
    ELSE [list |-> list, gpu |-> gpu]

(***************************************************************************)
(* Client::update, lines 245-274: apply the pending block updates.         *)
(***************************************************************************)
\* an expansion that pushes the home chunk only
ChunkUpdatesOfHome(blockPosition) == << toChunkPosition(blockPosition) >>

\* the chunk positions one block update pushes onto m_chunks.updates
ChunkUpdatesOf(blockPosition) ==
    LET p == toChunkPosition(blockPosition)
        l == toLocalBlockPosition(blockPosition)
        onX == IF l[1] = 0 THEN << <<p[1] - 1, p[2], p[3]>> >>
               ELSE IF l[1] = CHUNK_SIZE - 1 THEN << <<p[1] + 1, p[2], p[3]>> >>
               ELSE << >>
        onY == IF l[2] = 0 THEN << <<p[1], p[2] - 1, p[3]>> >>
               ELSE IF l[2] = CHUNK_SIZE - 1 THEN << <<p[1], p[2] + 1, p[3]>> >>
               ELSE << >>
        onZ == IF l[3] = 0 THEN << <<p[1], p[2], p[3] - 1>> >>
               ELSE IF l[3] = CHUNK_SIZE - 1 THEN << <<p[1], p[2], p[3] + 1>> >>
               ELSE << >>
    IN  <<p>> \o onX \o onY \o onZ

\* one pass of the loop body: st is [loaded, blocks, updates]
ApplyBlockUpdate(bu, st) ==
    [loaded |-> ensureNeighbours(toChunkPosition(bu.position), st.loaded),
     blocks |-> setBlock(bu.position, bu.block, st.blocks),
     updates |-> st.updates \o ChunkUpdatesOf(bu.position)]

RECURSIVE ApplyBlockUpdates(_, _)
ApplyBlockUpdates(bus, st) ==
    IF bus = << >> THEN st
    ELSE ApplyBlockUpdates(Tail(bus), ApplyBlockUpdate(Head(bus), st))

(***************************************************************************)
(* Client::update, lines 276-304: distance, sort check, dedup and sort.    *)
(***************************************************************************)
distanceToPlayer(playerChunk, cp) ==
    Abs(playerChunk[1] - cp[1]) + Abs(playerChunk[2] - cp[2])
        + Abs(playerChunk[3] - cp[3])

\* std::is_sorted under "distance(a) < distance(b)"
IsSortedByDistance(q, playerChunk) ==
    \A i \in 1..(Len(q) - 1) :
        ~(distanceToPlayer(playerChunk, q[i + 1])
            < distanceToPlayer(playerChunk, q[i]))

\* the orders of the positions of S that are sorted by distance
RECURSIVE SortedOrders(_, _)
SortedOrders(S, playerChunk) ==
    IF S = {} THEN { << >> }
    ELSE LET nearest == {x \in S : \A y \in S :
                            distanceToPlayer(playerChunk, x)
                                <= distanceToPlayer(playerChunk, y)}
         IN  UNION { {<<x>> \o t : t \in SortedOrders(S \ {x}, playerChunk)} :
                     x \in nearest }

\* a sort step that leaves the queue in the order of arrival
SortStepNever(q, playerChunk) == {q}

\* a sort step that leaves out the std::is_sorted check
SortStepAlways(q, playerChunk) == SortedOrders(Range(q), playerChunk)

\* The queues the sort step can leave.  A sorted queue is left as it is.
\* Otherwise its distinct positions are taken from an unordered_set (any
\* order) and sorted with std::sort (not stable): any order of the distinct
\* positions that is sorted by distance.
SortStep(q, playerChunk) ==
    IF IsSortedByDistance(q, playerChunk) THEN {q}
    ELSE SortedOrders(Range(q), playerChunk)

(***************************************************************************)
(* Client::update, lines 306-339: the budgeted scan of the queue.          *)
(***************************************************************************)
\* Client::deleteChunkRenderable: both registries; st holds drawables,
\* fluidDrawables and gpuLive among its fields
deleteBothRenderables(cp, st) ==
    LET opaque == deleteChunkRenderable(cp, st.drawables, st.gpuLive)
        fluid == deleteChunkRenderable(cp, st.fluidDrawables, opaque.gpu)
    IN  [st EXCEPT !.drawables = opaque.list,
                   !.fluidDrawables = fluid.list,
                   !.gpuLive = fluid.gpu]

\* a scan that meshes every entry without asking for its neighbours
RECURSIVE ScanLoopMeshingAll(_, _, _, _, _, _)
ScanLoopMeshingAll(rest, kept, count, st, chunks, grid) ==
    IF rest = << >> THEN [st EXCEPT !.updates = kept]
    ELSE LET built == [st EXCEPT !.bufferables =
                            Append(@, makeChunkMesh(Head(rest), grid))]
             erased == deleteBothRenderables(Head(rest), built)
         IN  IF count > BUDGET_LIMIT
             THEN [erased EXCEPT !.updates = kept \o Tail(rest)]
             ELSE ScanLoopMeshingAll(Tail(rest), kept, count + 1, erased,
                                     chunks, grid)

\* a scan that stops at the first entry that is not ready
RECURSIVE ScanLoopStopping(_, _, _, _, _, _)
ScanLoopStopping(rest, kept, count, st, chunks, grid) ==
    IF rest = << >> THEN [st EXCEPT !.updates = kept]
    ELSE IF hasNeighbours(Head(rest), chunks)
    THEN LET built == [st EXCEPT !.bufferables =
                            Append(@, makeChunkMesh(Head(rest), grid))]
             erased == deleteBothRenderables(Head(rest), built)
         IN  IF count > BUDGET_LIMIT
             THEN [erased EXCEPT !.updates = kept \o Tail(rest)]
             ELSE ScanLoopStopping(Tail(rest), kept, count + 1, erased,
                                   chunks, grid)
    ELSE [st EXCEPT !.updates = kept \o rest, !.noMeshingCount = @ + 1]

\* a scan that drops the rest of the queue when it stops on its budget
RECURSIVE ScanLoopDropping(_, _, _, _, _, _)
ScanLoopDropping(rest, kept, count, st, chunks, grid) ==
    IF rest = << >> THEN [st EXCEPT !.updates = kept]
    ELSE IF hasNeighbours(Head(rest), chunks)
    THEN LET built == [st EXCEPT !.bufferables =
                            Append(@, makeChunkMesh(Head(rest), grid))]
             erased == deleteBothRenderables(Head(rest), built)
         IN  IF count > BUDGET_LIMIT
             THEN [erased EXCEPT !.updates = kept]
             ELSE ScanLoopDropping(Tail(rest), kept, count + 1, erased,
                                   chunks, grid)
    ELSE ScanLoopDropping(Tail(rest), Append(kept, Head(rest)), count,
                          [st EXCEPT !.noMeshingCount = @ + 1], chunks, grid)

\* a scan that meshes the ready entries but erases none of them
RECURSIVE ScanLoopKeeping(_, _, _, _, _, _)
ScanLoopKeeping(rest, kept, count, st, chunks, grid) ==
    IF rest = << >> THEN [st EXCEPT !.updates = kept]
    ELSE IF hasNeighbours(Head(rest), chunks)
    THEN LET built == [st EXCEPT !.bufferables =
                            Append(@, makeChunkMesh(Head(rest), grid))]
             erased == deleteBothRenderables(Head(rest), built)
         IN  IF count > BUDGET_LIMIT
             THEN [erased EXCEPT !.updates = kept \o rest]
             ELSE ScanLoopKeeping(Tail(rest), Append(kept, Head(rest)),
                                  count + 1, erased, chunks, grid)
    ELSE ScanLoopKeeping(Tail(rest), Append(kept, Head(rest)), count,
                         [st EXCEPT !.noMeshingCount = @ + 1], chunks, grid)

\* The for loop of lines 314-335.  rest is the queue from the iterator on,
\* kept the entries the iterator has passed (all skipped as not meshable),
\* count the local counter, st the record of what the loop changes.
RECURSIVE ScanLoop(_, _, _, _, _, _)
ScanLoop(rest, kept, count, st, chunks, grid) ==
    IF rest = << >> THEN [st EXCEPT !.updates = kept]
    ELSE IF hasNeighbours(Head(rest), chunks)
    THEN LET built == [st EXCEPT !.bufferables =
                            Append(@, makeChunkMesh(Head(rest), grid))]
             erased == deleteBothRenderables(Head(rest), built)
         IN  IF count > BUDGET_LIMIT
             THEN [erased EXCEPT !.updates = kept \o Tail(rest)]
             ELSE ScanLoop(Tail(rest), kept, count + 1, erased, chunks, grid)
    ELSE ScanLoop(Tail(rest), Append(kept, Head(rest)), count,
                  [st EXCEPT !.noMeshingCount = @ + 1], chunks, grid)

\* a drain that sets the blocked flag after every scan
MeshingBlockingAfterScan(q, st, chunks, grid) ==
    LET unblocked == IF st.noMeshingCount # Len(q)
                     THEN [st EXCEPT !.blockMeshing = FALSE] ELSE st
    IN  IF ~unblocked.blockMeshing
        THEN [ScanLoop(q, << >>, 0,
                       [unblocked EXCEPT !.noMeshingCount = 0,
                                         !.scanned = TRUE],
                       chunks, grid) EXCEPT !.blockMeshing = TRUE]
        ELSE [unblocked EXCEPT !.updates = q]

\* Lines 306-339 on the queue q the sort step left (q is not empty).
Meshing(q, st, chunks, grid) ==
    LET unblocked == IF st.noMeshingCount # Len(q)
                     THEN [st EXCEPT !.blockMeshing = FALSE] ELSE st
    IN  IF ~unblocked.blockMeshing
        THEN LET done == ScanLoop(q, << >>, 0,
                                  [unblocked EXCEPT !.noMeshingCount = 0,
                                                    !.scanned = TRUE],
                                  chunks, grid)
             IN  IF done.noMeshingCount = Len(done.updates)
                 THEN [done EXCEPT !.blockMeshing = TRUE] ELSE done
        ELSE [unblocked EXCEPT !.updates = q]

(***************************************************************************)
(* Client::render, lines 409-422: buffer the pending meshes.               *)
(***************************************************************************)
\* st is [drawables, fluidDrawables, gpuLive]
BufferMesh(chunkMesh, st) ==
    LET withBlock ==
            IF chunkMesh.blockMesh.indicesCount > 0
            THEN [st EXCEPT
                    !.drawables = Append(@,
                        [position |-> chunkMesh.blockMesh.position,
                         vao |-> createBuffer(st.gpuLive)]),
                    !.gpuLive = @ \cup {createBuffer(st.gpuLive)}]
            ELSE st
    IN  IF chunkMesh.fluidMesh.indicesCount > 0
        THEN [withBlock EXCEPT
                !.fluidDrawables = Append(@,
                    [position |-> chunkMesh.fluidMesh.position,
                     vao |-> createBuffer(withBlock.gpuLive)]),
                !.gpuLive = @ \cup {createBuffer(withBlock.gpuLive)}]
        ELSE withBlock

RECURSIVE BufferMeshes(_, _)
BufferMeshes(meshes, st) ==
    IF meshes = << >> THEN st
    ELSE BufferMeshes(Tail(meshes), BufferMesh(Head(meshes), st))

(***************************************************************************)
(* The ray of Client::onMouseRelease (class Ray of the maths library):     *)
(* it starts at the viewer and each step moves its end one fixed-point     *)
(* unit along the direction, remembering the point before.                 *)
(***************************************************************************)
Ray(startPoint, direction) ==
    [start |-> startPoint, end |-> startPoint, last |-> startPoint,
     direction |-> direction]

step(ray) == [ray EXCEPT !.last = ray.end, !.end = Plus(ray.end, ray.direction)]

\* the length in fixed-point units (the direction is a unit vector of an axis)
getLength(ray) ==
    Abs(ray.end[1] - ray.start[1]) + Abs(ray.end[2] - ray.start[2])
        + Abs(ray.end[3] - ray.start[3])

\* a ray loop that also looks at the endpoint at the full length
RECURSIVE CastRayLonger(_, _, _)
CastRayLonger(ray, leftButton, grid) ==
    IF ~(getLength(ray) <= RAY_MAX_LENGTH * Fixed) THEN << >>
    ELSE LET rayBlockPosition == toBlockPosition(ray.end) IN
         IF getBlock(rayBlockPosition, grid) > 0
         THEN << [block |-> IF leftButton THEN 0 ELSE 1,
                  position |-> IF leftButton THEN rayBlockPosition
                               ELSE toBlockPosition(ray.last)] >>
         ELSE CastRayLonger(step(ray), leftButton, grid)

\* a ray loop whose place action targets the hit block itself
RECURSIVE CastRayAtHit(_, _, _)
CastRayAtHit(ray, leftButton, grid) ==
    IF ~(getLength(ray) < RAY_MAX_LENGTH * Fixed) THEN << >>
    ELSE LET rayBlockPosition == toBlockPosition(ray.end) IN
         IF getBlock(rayBlockPosition, grid) > 0
         THEN << [block |-> IF leftButton THEN 0 ELSE 1,
                  position |-> rayBlockPosition] >>
         ELSE CastRayAtHit(step(ray), leftButton, grid)

\* The loop of lines 186-198: the block updates it emits (none or one).
RECURSIVE CastRay(_, _, _)
CastRay(ray, leftButton, grid) ==
    IF ~(getLength(ray) < RAY_MAX_LENGTH * Fixed) THEN << >>
    ELSE LET rayBlockPosition == toBlockPosition(ray.end) IN
         IF getBlock(rayBlockPosition, grid) > 0
         THEN << [block |-> IF leftButton THEN 0 ELSE 1,
                  position |-> IF leftButton THEN rayBlockPosition
                               ELSE toBlockPosition(ray.last)] >>
         ELSE CastRay(step(ray), leftButton, grid)

(***************************************************************************)
(* The inputs the model draws.                                             *)
(***************************************************************************)
\* Client::init, line 83
InitialPosition ==
    toWorld(<<CHUNK_SIZE * 2, CHUNK_SIZE * 2 + 1, CHUNK_SIZE * 2>>)

\* where the viewer walks: its first chunk and the chunk next to it on -x
PlayerPositions ==
    {InitialPosition, Plus(InitialPosition, toWorld(<<-CHUNK_SIZE, 0, 0>>))}

\* the velocities the keys give, per frame
Velocities ==
    {<<0, 0, 0>>, toWorld(<<-CHUNK_SIZE, 0, 0>>), toWorld(<<CHUNK_SIZE, 0, 0>>)}

\* the directions the viewer looks in: up
Rotations == {<<0, 1, 0>>}

\* the mouse buttons the viewer uses: the left one (break)
Buttons == {TRUE}

\* The block updates the server sends: on the -x and -z faces of the
\* viewer's first chunk (the block above the viewer), and inside the two
\* chunks behind those faces.
FaceBlock == <<CHUNK_SIZE * 2, CHUNK_SIZE * 2 + 2, CHUNK_SIZE * 2>>

InnerBlockX == <<CHUNK_SIZE + 1, CHUNK_SIZE * 2 + 1, CHUNK_SIZE * 2 + 1>>

InnerBlockZ == <<CHUNK_SIZE * 2 + 1, CHUNK_SIZE * 2 + 1, CHUNK_SIZE + 1>>

NetBlockUpdates ==
    { [position |-> FaceBlock, block |-> 1],
      [position |-> InnerBlockX, block |-> 2],
      [position |-> InnerBlockX, block |-> 0],
      [position |-> InnerBlockZ, block |-> 0] }

\* what one tick delivers: up to n of the server's block updates, each once
Deliveries(n) ==
    UNION { {d \in [1..k -> NetBlockUpdates] :
                \A i, j \in 1..k : d[i] = d[j] => i = j} : k \in 0..n }

(***************************************************************************)
(* The state after Client::init.                                           *)
(***************************************************************************)
Init ==
    /\ phase = "input"
    /\ hasReceivedGameData = FALSE
    /\ position = InitialPosition
    /\ velocity = <<0, 0, 0>>
    /\ rotation = <<0, 1, 0>>
    /\ loaded = {}
    /\ blocks = << >>
    /\ blockUpdates = << >>
    /\ updates = << >>
    /\ noMeshingCount = 0
    /\ blockMeshing = FALSE
    /\ bufferables = << >>
    /\ drawables = << >>
    /\ fluidDrawables = << >>
    /\ gpuLive = {}
    /\ netOut = << >>
    /\ scanned = FALSE

(***************************************************************************)
(* The handlers.  One frame is: the window's events (onMouseRelease),      *)
(* handleInput, update, render.                                            *)
(***************************************************************************)
\* Client::onMouseRelease, lines 177-199
onMouseRelease(leftButton) ==
    /\ phase = "input"
    /\ Len(blockUpdates) < MaxMouseReleases
    /\ \E emitted \in {CastRay(Ray(position, rotation), leftButton, blocks)} :
        /\ blockUpdates' = blockUpdates \o emitted
        /\ netOut' = netOut \o
              [i \in 1..Len(emitted) |->
                  [command |-> "BlockEdit", update |-> emitted[i]]]
    /\ UNCHANGED <<phase, hasReceivedGameData, position, velocity, rotation,
                   loaded, blocks, updates, noMeshingCount, blockMeshing,
                   bufferables, drawables, fluidDrawables, gpuLive, scanned>>

\* Client::handleInput, lines 96-175: the mouse turns the viewer, the keys
\* add to its velocity
handleInput(turn, push) ==
    /\ phase = "input"
    /\ phase' = "update"
    /\ IF ~hasReceivedGameData
       THEN UNCHANGED <<rotation, velocity>>
       ELSE /\ rotation' = turn
            /\ velocity' = Plus(velocity, push)
            /\ Plus(position, velocity') \in PlayerPositions
    /\ UNCHANGED <<hasReceivedGameData, position, loaded, blocks,
                   blockUpdates, updates, noMeshingCount, blockMeshing,
                   bufferables, drawables, fluidDrawables, gpuLive, netOut,
                   scanned>>

\* Lines 236-340 of Client::update: pending are the block updates to apply.
Frame(pending) ==
    \E applied \in {ApplyBlockUpdates(pending,
                        [loaded |-> loaded, blocks |-> blocks,
                         updates |-> updates])} :
        /\ position' = Plus(position, velocity)
        /\ velocity' = <<0, 0, 0>>
        /\ netOut' = << [command |-> "PlayerPosition",
                         position |-> position'] >>
        /\ loaded' = applied.loaded
        /\ blocks' = applied.blocks
        /\ blockUpdates' = << >>
        /\ \E q \in SortStep(applied.updates, worldToChunkPosition(position')) :
           \E after \in
                {IF applied.updates # << >>
                 THEN Meshing(q, [updates |-> applied.updates,
                                  noMeshingCount |-> noMeshingCount,
                                  blockMeshing |-> blockMeshing,
                                  bufferables |-> bufferables,
                                  drawables |-> drawables,
                                  fluidDrawables |-> fluidDrawables,
                                  gpuLive |-> gpuLive,
                                  scanned |-> FALSE],
                              applied.loaded, applied.blocks)
                 ELSE [updates |-> applied.updates,
                       noMeshingCount |-> noMeshingCount,
                       blockMeshing |-> blockMeshing,
                       bufferables |-> bufferables,
                       drawables |-> drawables,
                       fluidDrawables |-> fluidDrawables,
                       gpuLive |-> gpuLive,
                       scanned |-> FALSE]} :
                /\ updates' = after.updates
                /\ noMeshingCount' = after.noMeshingCount
                /\ blockMeshing' = after.blockMeshing
                /\ bufferables' = after.bufferables
                /\ drawables' = after.drawables
                /\ fluidDrawables' = after.fluidDrawables
                /\ gpuLive' = after.gpuLive
                /\ scanned' = after.scanned

\* Client::update, lines 229-341.  NetworkHost::tick sends the queued
\* packets and hands what the server sent to its handlers: the game data
\* (which sets m_hasReceivedGameData) and the block updates in delivered
\* (each pushed onto m_chunks.blockUpdates).
update(gameData, delivered) ==
    /\ phase = "update"
    /\ phase' = "render"
    /\ gameData => ~hasReceivedGameData
    /\ delivered # << >> =>
            Len(blockUpdates) + Len(delivered) <= MaxBlockUpdates
    /\ hasReceivedGameData' = (hasReceivedGameData \/ gameData)
    /\ IF ~hasReceivedGameData'
       THEN /\ netOut' = << >>
            /\ blockUpdates' = blockUpdates \o delivered
            /\ UNCHANGED <<position, velocity, loaded, blocks, updates,
                           noMeshingCount, blockMeshing, bufferables,
                           drawables, fluidDrawables, gpuLive, scanned>>
       ELSE Frame(blockUpdates \o delivered)
    /\ UNCHANGED rotation

\* Client::render, lines 343-437
render ==
    /\ phase = "render"
    /\ phase' = "input"
    /\ IF ~hasReceivedGameData
       THEN UNCHANGED <<bufferables, drawables, fluidDrawables, gpuLive>>
       ELSE \E buffered \in {BufferMeshes(bufferables,
                                [drawables |-> drawables,
                                 fluidDrawables |-> fluidDrawables,
                                 gpuLive |-> gpuLive])} :
                /\ drawables' = buffered.drawables
                /\ fluidDrawables' = buffered.fluidDrawables
                /\ gpuLive' = buffered.gpuLive
                /\ bufferables' = << >>
    /\ UNCHANGED <<hasReceivedGameData, position, velocity, rotation, loaded,
                   blocks, blockUpdates, updates, noMeshingCount,
                   blockMeshing, netOut, scanned>>

\* the vertex array handles the Drawables of a list hold
VaosOf(list) == [i \in 1..Len(list) |-> list[i].vao]

\* Client::endGame, lines 439-461: the engine calls it when its frame loop
\* ends.  Each Drawable's vertex array is destroyed; the lists are not
\* cleared.
endGame ==
    /\ phase = "input"
    /\ phase' = "ended"
    /\ gpuLive' = (gpuLive \ Range(VaosOf(drawables)))
                        \ Range(VaosOf(fluidDrawables))
    /\ UNCHANGED <<hasReceivedGameData, position, velocity, rotation, loaded,
                   blocks, blockUpdates, updates, noMeshingCount,
                   blockMeshing, bufferables, drawables, fluidDrawables,
                   netOut, scanned>>

Next ==
    \/ \E leftButton \in Buttons : onMouseRelease(leftButton)
    \/ \E turn \in Rotations, push \in Velocities : handleInput(turn, push)
    \/ \E gameData \in BOOLEAN, delivered \in Deliveries(MaxDeliveries) :
            update(gameData, delivered)
    \/ render
    \/ endGame

Spec == Init /\ [][Next]_vars

(***************************************************************************)
(* What the claims speak of.                                               *)
(***************************************************************************)
\* the state right after a drain: update has run its lines 236-340
AfterDrain == phase = "render" /\ hasReceivedGameData

\* The positions the last drain consumed, in the order it meshed them: each
\* consumed entry appended one mesh to bufferables, which render had emptied.
Consumed == [i \in 1..Len(bufferables) |-> bufferables[i].blockMesh.position]

\* The entries of the queue when the last drain's sort step was done, the
\* consumed ones first: the scan only moves entries from the queue to Consumed.
QueueAtScan == Consumed \o updates

NoDuplicates(q) == \A i, j \in 1..Len(q) : q[i] = q[j] => i = j

PositionsOf(list) == [i \in 1..Len(list) |-> list[i].position]

PlayerChunk == worldToChunkPosition(position)

NotReadyCount(q, chunks) ==
    Cardinality({i \in 1..Len(q) : ~hasNeighbours(q[i], chunks)})

\* C1: Budget bound.  One drain never consumes (meshes and removes from the
\* update queue) more than 4 entries.
C1_BudgetBound == AfterDrain => Len(Consumed) <= 4

\* C2: At most one Drawable.  In every reachable state the opaque registry
\* holds at most one Drawable per chunk position, and so does the
\* translucent registry.
C2_AtMostOneDrawable ==
    /\ NoDuplicates(PositionsOf(drawables))
    /\ NoDuplicates(PositionsOf(fluidDrawables))

\* C3: Dedup invariant.  When a drain's sort step is done and its scan
\* begins, no chunk position is in the update queue more than once.
C3_DedupInvariant == AfterDrain => NoDuplicates(QueueAtScan)

\* C5: Blocked to Active.  When the scheduler is blocked and the count of
\* not-ready entries of the queue is no longer the count recorded when it
\* blocked, the next drain scans the queue.
C5_BlockedToActive ==
    [][(/\ phase = "update" /\ phase' = "render" /\ hasReceivedGameData'
        /\ blockMeshing
        /\ NotReadyCount(QueueAtScan', loaded') # noMeshingCount)
       => scanned']_vars

\* C7: Blocked-queue idempotence.  A drain that applies no block update and
\* moves the viewer nowhere, on a queue whose entries are all not ready,
\* builds no mesh and leaves the queue, the pending buffers and both
\* registries as they were.
C7_BlockedIdempotence ==
    [][(/\ update(FALSE, << >>)
        /\ hasReceivedGameData
        /\ blockUpdates = << >>
        /\ velocity = <<0, 0, 0>>
        /\ updates # << >>
        /\ \A i \in 1..Len(updates) : ~hasNeighbours(updates[i], loaded))
       => /\ bufferables' = bufferables
          /\ updates' = updates
          /\ drawables' = drawables
          /\ fluidDrawables' = fluidDrawables
          /\ gpuLive' = gpuLive]_vars

\* a drain has just left alone a blocked queue of two not-ready entries
C7_Witness ==
    /\ AfterDrain
    /\ ~scanned
    /\ blockMeshing
    /\ Len(updates) > 1
    /\ \A i \in 1..Len(updates) : ~hasNeighbours(updates[i], loaded)
    /\ bufferables = << >>

\* the last mesh of bufferables for the chunk position cp
LastMeshOf(cp, meshes) ==
    meshes[CHOOSE i \in 1..Len(meshes) :
                /\ meshes[i].blockMesh.position = cp
                /\ \A j \in (i + 1)..Len(meshes) :
                        meshes[j].blockMesh.position # cp]

\* C9: Empty geometry.  After a buffer pass, a chunk position whose last
\* built mesh has no opaque indices has no Drawable in the opaque registry,
\* and one whose last built mesh has no fluid indices has none in the
\* translucent registry, whatever Drawables it had before.
C9_EmptyGeometry ==
    [][(phase = "render" /\ phase' = "input" /\ hasReceivedGameData)
       => \A i \in 1..Len(bufferables) :
            LET cp == bufferables[i].blockMesh.position
                last == LastMeshOf(cp, bufferables)
            IN  /\ last.blockMesh.indicesCount = 0
                    => \A k \in 1..Len(drawables') :
                            drawables'[k].position # cp
                /\ last.fluidMesh.indicesCount = 0
                    => \A k \in 1..Len(fluidDrawables') :
                            fluidDrawables'[k].position # cp]_vars

(***************************************************************************)
(* A burst of block updates.  NetworkHost::tick hands block updates to     *)
(* m_chunks.blockUpdates also while the game data has not arrived, and     *)
(* update returns before it applies them; the first drain after the game   *)
(* data applies them all.  SpecBurst starts at update with such a burst    *)
(* pending and delivers nothing more.                                      *)
(***************************************************************************)
\* Most block updates of a burst of updates in the interiors of chunks.
MaxBurst == 6

\* the chunk the viewer starts in
StartChunk == worldToChunkPosition(InitialPosition)

\* chunks at distances 0, 1, 1, 2, 2, 2 of the viewer's first chunk
BurstChunks ==
    { StartChunk,
      Plus(StartChunk, <<-1, 0, 0>>), Plus(StartChunk, <<0, 0, -1>>),
      Plus(StartChunk, <<-2, 0, 0>>), Plus(StartChunk, <<0, 0, -2>>),
      Plus(StartChunk, <<-1, 0, -1>>) }

\* the block at the local position l of the chunk cp
BlockAt(cp, l) == Plus(Scaled(cp, CHUNK_SIZE), l)

\* one solid block put inside each chunk of BurstChunks, off every face
InteriorEdits ==
    { [position |-> BlockAt(cp, <<1, 1, 1>>), block |-> 1] : cp \in BurstChunks }

\* a solid block put at each local position of the viewer's first chunk and
\* of the chunk next to it on -x
LocalEdits ==
    { [position |-> BlockAt(cp, <<x, y, z>>), block |-> 1] :
        cp \in {StartChunk, Plus(StartChunk, <<-1, 0, 0>>)},
        x \in 0..(CHUNK_SIZE - 1), y \in 0..(CHUNK_SIZE - 1),
        z \in 0..(CHUNK_SIZE - 1) }

\* the bursts: interior edits of distinct chunks in any order, or one edit
\* anywhere in a chunk
Bursts ==
    UNION { {d \in [1..k -> InteriorEdits] :
                \A i, j \in 1..k : d[i] = d[j] => i = j} : k \in 0..MaxBurst }
        \cup { <<bu>> : bu \in LocalEdits }

InitBurst ==
    /\ phase = "update"
    /\ hasReceivedGameData = FALSE
    /\ position = InitialPosition
    /\ velocity = <<0, 0, 0>>
    /\ rotation = <<0, 1, 0>>
    /\ loaded = {}
    /\ blocks = << >>
    /\ blockUpdates \in Bursts
    /\ updates = << >>
    /\ noMeshingCount = 0
    /\ blockMeshing = FALSE
    /\ bufferables = << >>
    /\ drawables = << >>
    /\ fluidDrawables = << >>
    /\ gpuLive = {}
    /\ netOut = << >>
    /\ scanned = FALSE

NextBurst ==
    \/ \E turn \in Rotations, push \in Velocities : handleInput(turn, push)
    \/ \E gameData \in BOOLEAN : update(gameData, << >>)
    \/ render

\* the frame loop never stops: update and render run every frame
SpecBurst == InitBurst /\ [][NextBurst]_vars /\ WF_vars(NextBurst)

\* C4: Distance ordering.  After every drain, each entry the drain consumed
\* is no farther (Manhattan distance of chunk positions) from the chunk the
\* viewer was in at that drain than any ready entry the drain left in the
\* queue.
C4_DistanceOrdering ==
    AfterDrain =>
        \A i \in 1..Len(Consumed), j \in 1..Len(updates) :
            hasNeighbours(updates[j], loaded)
                => distanceToPlayer(PlayerChunk, Consumed[i])
                    <= distanceToPlayer(PlayerChunk, updates[j])

\* a drain stopped on its budget: it consumed a nearer entry and left a ready
\* one that is farther
C4_Witness ==
    /\ AfterDrain
    /\ scanned
    /\ \E i \in 1..Len(Consumed), j \in 1..Len(updates) :
            /\ hasNeighbours(updates[j], loaded)
            /\ distanceToPlayer(PlayerChunk, Consumed[i])
                < distanceToPlayer(PlayerChunk, updates[j])

\* the queue a drain starts from: the queue the drain before left, and what
\* the pending block updates push onto it
Enqueued ==
    ApplyBlockUpdates(blockUpdates,
        [loaded |-> loaded, blocks |-> blocks, updates |-> updates]).updates

\* a step that is a drain: update past its game-data check
IsDrain == phase = "update" /\ phase' = "render" /\ hasReceivedGameData'

\* C6: Round trip.  When the positions enqueued are pairwise distinct and
\* all ready, each drain consumes distinct positions, builds one pending
\* buffer for each, takes them out of the queue and keeps the others once
\* each; and repeated drains empty the queue.  So every enqueued position is
\* meshed exactly once.
C6_RoundTrip ==
    /\ [][(/\ IsDrain
           /\ NoDuplicates(Enqueued)
           /\ \A i \in 1..Len(Enqueued) : hasNeighbours(Enqueued[i], loaded'))
          => /\ NoDuplicates(Consumed')
             /\ NoDuplicates(updates')
             /\ Range(Consumed') \cap Range(updates') = {}
             /\ Range(Consumed') \cup Range(updates') = Range(Enqueued)
             /\ \A i \in 1..Len(bufferables') :
                    bufferables'[i].fluidMesh.position = Consumed'[i]]_vars
    /\ (/\ hasReceivedGameData
        /\ NoDuplicates(updates)
        /\ \A i \in 1..Len(updates) : hasNeighbours(updates[i], loaded))
            ~> (updates = << >>)

\* six distinct ready positions were enqueued; the second drain has just
\* consumed the one the first drain's budget left, and the queue is empty
C6_Witness ==
    /\ AfterDrain
    /\ updates = << >>
    /\ Len(Consumed) = 1
    /\ Len(drawables) = MaxBurst - 1
    /\ Cardinality(DOMAIN blocks) = MaxBurst

\* the chunk positions the spec's rule gives for an edit in the chunk home at
\* the local position l
ExpectedChunks(home, l) ==
    {home}
        \cup (IF l[1] = 0 THEN {Plus(home, <<-1, 0, 0>>)} ELSE {})
        \cup (IF l[1] = CHUNK_SIZE - 1 THEN {Plus(home, <<1, 0, 0>>)} ELSE {})
        \cup (IF l[2] = 0 THEN {Plus(home, <<0, -1, 0>>)} ELSE {})
        \cup (IF l[2] = CHUNK_SIZE - 1 THEN {Plus(home, <<0, 1, 0>>)} ELSE {})
        \cup (IF l[3] = 0 THEN {Plus(home, <<0, 0, -1>>)} ELSE {})
        \cup (IF l[3] = CHUNK_SIZE - 1 THEN {Plus(home, <<0, 0, 1>>)} ELSE {})

\* C8: Neighbour expansion.  A drain that applies one block edit to an empty
\* queue enqueues the home chunk and, on each axis, the -1 neighbour when the
\* edit's local coordinate is 0 and the +1 neighbour when it is
\* CHUNK_SIZE - 1, each once and nothing else; at most 4 entries.
C8_NeighbourExpansion ==
    [][(IsDrain /\ Len(blockUpdates) = 1 /\ updates = << >>)
       => LET b == blockUpdates[1].position
              expected == ExpectedChunks(toChunkPosition(b),
                                         toLocalBlockPosition(b))
              home == toChunkPosition(b)
              l == toLocalBlockPosition(b)
          IN  /\ Range(QueueAtScan') = expected
              /\ Len(QueueAtScan') = Cardinality(expected)
              /\ Len(QueueAtScan') <= 4
              /\ l = <<0, 1, 1>>
                    => Range(QueueAtScan') = {home, Plus(home, <<-1, 0, 0>>)}
              /\ l = <<CHUNK_SIZE - 1, CHUNK_SIZE - 1, 1>>
                    => Range(QueueAtScan') =
                        {home, Plus(home, <<1, 0, 0>>), Plus(home, <<0, 1, 0>>)}
              /\ l = <<1, 1, 1>> => QueueAtScan' = <<home>>]_vars

\* a drain has applied one edit at a corner of a chunk: four entries
C8_Witness ==
    /\ AfterDrain
    /\ Cardinality(DOMAIN blocks) = 1
    /\ Len(QueueAtScan) = 4
    /\ \E b \in DOMAIN blocks :
            toLocalBlockPosition(b) = <<CHUNK_SIZE - 1, CHUNK_SIZE - 1, 0>>

(***************************************************************************)
(* Picking.  SpecPick starts with the viewer somewhere in a world of a few *)
(* blocks, looking along an axis, and releases a mouse button.             *)
(***************************************************************************)
\* where the viewer stands: the origin, half a block off it on every axis,
\* and half a block behind it on z
PickPositions == { <<0, 0, 0>>, <<1, 1, 1>>, <<0, 0, -1>> }

\* where the viewer looks: along each axis, both ways
PickRotations ==
    { <<0, 0, 1>>, <<0, 0, -1>>, <<1, 0, 0>>, <<-1, 0, 0>>,
      <<0, 1, 0>>, <<0, -1, 0>> }

\* the blocks the world may hold: around the length limit on +z, the
\* viewer's own cell, and one on each of -z, +x and -y
PickBlocks ==
    { <<0, 0, 5>>, <<0, 0, RAY_MAX_LENGTH - 1>>, <<0, 0, RAY_MAX_LENGTH>>,
      <<0, 0, 0>>, <<0, 0, -3>>, <<4, 0, 0>>, <<0, -2, 0>> }

InitPick ==
    /\ phase = "input"
    /\ hasReceivedGameData = TRUE
    /\ position \in PickPositions
    /\ velocity = <<0, 0, 0>>
    /\ rotation \in PickRotations
    /\ \E held \in SUBSET PickBlocks :
        /\ blocks = [b \in held |-> 1]
        /\ loaded = {toChunkPosition(b) : b \in held}
    /\ blockUpdates = << >>
    /\ updates = << >>
    /\ noMeshingCount = 0
    /\ blockMeshing = FALSE
    /\ bufferables = << >>
    /\ drawables = << >>
    /\ fluidDrawables = << >>
    /\ gpuLive = {}
    /\ netOut = << >>
    /\ scanned = FALSE

NextPick == \E leftButton \in BOOLEAN : onMouseRelease(leftButton)

SpecPick == InitPick /\ [][NextPick]_vars

\* the cell of the ray's endpoint after k steps from the viewer
CellAfter(k) == toBlockPosition(Plus(position, Scaled(rotation, k)))

\* the numbers of steps after which the endpoint is in a non-empty cell and
\* the ray is shorter than RAY_MAX_LENGTH blocks
HitSteps ==
    { k \in 0..(RAY_MAX_LENGTH * Fixed - 1) : getBlock(CellAfter(k), blocks) > 0 }

FirstHit == CHOOSE k \in HitSteps : \A other \in HitSteps : k <= other

\* the block update the claim gives for a hit
ExpectedPick(leftButton) ==
    IF leftButton
    THEN [block |-> 0, position |-> CellAfter(FirstHit)]
    ELSE [block |-> 1,
          position |-> CellAfter(IF FirstHit > 0 THEN FirstHit - 1 ELSE 0)]

\* C10: Picking hit.  When an endpoint of the ray shorter than 8 is in a
\* non-empty cell, a mouse release emits exactly one block update, queued
\* on the pending block updates and sent to the network: for the left button
\* the first such cell with type 0, for another button the cell of the
\* endpoint before it (an empty cell when the ray has stepped) with type 1.
\* From the origin looking along +z at a block at z = 5 these are (0,0,5)
\* with type 0 and (0,0,4) with type 1.
C10_PickingHit ==
    /\ [](( phase = "input" /\ HitSteps # {} ) =>
            /\ \A leftButton \in BOOLEAN :
                CastRay(Ray(position, rotation), leftButton, blocks)
                    = << ExpectedPick(leftButton) >>
            /\ FirstHit > 0 => getBlock(ExpectedPick(FALSE).position, blocks) = 0
            /\ ( /\ position = <<0, 0, 0>>
                 /\ rotation = <<0, 0, 1>>
                 /\ getBlock(<<0, 0, 5>>, blocks) > 0
                 /\ \A z \in 0..4 : getBlock(<<0, 0, z>>, blocks) = 0 )
                => /\ CastRay(Ray(position, rotation), TRUE, blocks)
                        = << [block |-> 0, position |-> <<0, 0, 5>>] >>
                   /\ CastRay(Ray(position, rotation), FALSE, blocks)
                        = << [block |-> 1, position |-> <<0, 0, 4>>] >>)
    /\ [][( phase = "input" /\ phase' = "input" /\ HitSteps # {} ) =>
            \E leftButton \in BOOLEAN :
                /\ blockUpdates' = Append(blockUpdates, ExpectedPick(leftButton))
                /\ netOut' = Append(netOut,
                        [command |-> "BlockEdit",
                         update |-> ExpectedPick(leftButton)])
                /\ blocks' = blocks
                /\ updates' = updates]_vars

\* a place action from the origin, looking along +z at a block at z = 5, has
\* queued and sent its block update
C10_Witness ==
    /\ position = <<0, 0, 0>>
    /\ rotation = <<0, 0, 1>>
    /\ <<0, 0, 5>> \in DOMAIN blocks
    /\ blockUpdates = << [block |-> 1, position |-> <<0, 0, 4>>] >>
    /\ netOut = << [command |-> "BlockEdit",
                    update |-> [block |-> 1, position |-> <<0, 0, 4>>]] >>

\* C11: Picking miss.  When no endpoint of the ray shorter than 8 is in a
\* non-empty cell, a mouse release emits no block update: nothing is sent to
\* the network, and the pending block updates, the update queue and the
\* blocks stay as they were.
C11_PickingMiss ==
    /\ [](( phase = "input" /\ HitSteps = {} ) =>
            \A leftButton \in BOOLEAN :
                CastRay(Ray(position, rotation), leftButton, blocks) = << >>)
    /\ [][( phase = "input" /\ phase' = "input" /\ HitSteps = {} ) =>
            /\ netOut' = netOut
            /\ blockUpdates' = blockUpdates
            /\ updates' = updates
            /\ blocks' = blocks]_vars

\* the viewer at the origin looks along +z; the only block on that line is
\* at the full length of the ray, so the ray misses it
C11_Witness ==
    /\ position = <<0, 0, 0>>
    /\ rotation = <<0, 0, 1>>
    /\ DOMAIN blocks = { <<0, 0, RAY_MAX_LENGTH>> }
    /\ HitSteps = {}
    /\ blockUpdates = << >>
    /\ netOut = << >>

\* the vertex arrays the two registries hold, opaque first
HeldVaos == VaosOf(drawables) \o VaosOf(fluidDrawables)

\* C12: Teardown exactly once.  While the game runs, the vertex arrays alive
\* on the GPU are those the Drawables of the two registries hold, each held
\* by one Drawable only: so a removal or the teardown destroys a vertex
\* array that is alive and that no other Drawable will destroy again.  Once
\* endGame has run, no vertex array is left alive.
C12_TeardownExactlyOnce ==
    /\ [](phase # "ended" =>
            /\ NoDuplicates(HeldVaos)
            /\ Range(HeldVaos) = gpuLive)
    /\ [](phase = "ended" => gpuLive = {})
    /\ [][phase' = "ended" =>
            /\ Range(HeldVaos) = gpuLive
            /\ gpuLive' = {}]_vars

\* endGame has run with Drawables in both registries
C12_Witness ==
    /\ phase = "ended"
    /\ drawables # << >>
    /\ Len(fluidDrawables) > 1
    /\ gpuLive = {}

(***************************************************************************)
(* Re-meshing.  SpecRemesh starts like SpecBurst with a burst in up to     *)
(* three chunks, and then the server keeps editing the same blocks, so     *)
(* chunks that have Drawables are meshed again.  The viewer stands still.  *)
(***************************************************************************)
\* the viewer's first chunk and its neighbours on -x and -z
RemeshChunks ==
    { StartChunk, Plus(StartChunk, <<-1, 0, 0>>), Plus(StartChunk, <<0, 0, -1>>) }

\* the block inside each of these chunks set to air or to a solid block
RemeshEdits ==
    { [position |-> BlockAt(cp, <<1, 1, 1>>), block |-> t] :
        cp \in RemeshChunks, t \in {0, 1} }

\* the bursts: the solid edits, each at most once, in any order
RemeshBursts ==
    UNION { {d \in [1..k -> {e \in RemeshEdits : e.block = 1}] :
                \A i, j \in 1..k : d[i] = d[j] => i = j} :
            k \in 0..Cardinality(RemeshChunks) }

\* what one tick delivers: nothing or one edit
RemeshDeliveries == { << >> } \cup { <<e>> : e \in RemeshEdits }

InitRemesh ==
    /\ phase = "update"
    /\ hasReceivedGameData = FALSE
    /\ position = InitialPosition
    /\ velocity = <<0, 0, 0>>
    /\ rotation = <<0, 1, 0>>
    /\ loaded = {}
    /\ blocks = << >>
    /\ blockUpdates \in RemeshBursts
    /\ updates = << >>
    /\ noMeshingCount = 0
    /\ blockMeshing = FALSE
    /\ bufferables = << >>
    /\ drawables = << >>
    /\ fluidDrawables = << >>
    /\ gpuLive = {}
    /\ netOut = << >>
    /\ scanned = FALSE

NextRemesh ==
    \/ \E turn \in Rotations : handleInput(turn, <<0, 0, 0>>)
    \/ \E gameData \in BOOLEAN, delivered \in RemeshDeliveries :
            update(gameData, delivered)
    \/ render
    \/ endGame

SpecRemesh == InitRemesh /\ [][NextRemesh]_vars

\* what the claim asks of the removal of the position cp from a registry
\* list whose vertex arrays are among the live handles gpu
RemovalFrame(cp, list, gpu) ==
    LET removed == deleteChunkRenderable(cp, list, gpu) IN
    IF \A i \in 1..Len(list) : list[i].position # cp
    THEN removed.list = list /\ removed.gpu = gpu
    ELSE /\ Len(removed.list) = Len(list) - 1
         /\ \E k \in 1..Len(list) :
                /\ list[k].position = cp
                /\ Range(removed.list) = Range(list) \ {list[k]}
                /\ removed.gpu = gpu \ {list[k].vao}
         /\ \A i \in 1..Len(list) :
                list[i].position # cp
                    => /\ \E j \in 1..Len(removed.list) : removed.list[j] = list[i]
                       /\ list[i].vao \in removed.gpu

\* C13: removeAndDestroy frame.  Removing a chunk position that has no
\* Drawable leaves the registry list and the GPU as they are.  Removing one
\* that has a Drawable destroys and pops one Drawable of that position, and
\* every Drawable of any other position stays in the list with its vertex
\* array alive.  A drain leaves alone, in both registries, the Drawables of
\* the positions it did not consume.
C13_RemoveAndDestroyFrame ==
    /\ [](phase # "ended" =>
            \A cp \in RemeshChunks \cup {Plus(StartChunk, <<0, 1, 0>>)} :
                /\ RemovalFrame(cp, drawables, gpuLive)
                /\ RemovalFrame(cp, fluidDrawables, gpuLive))
    /\ [][IsDrain =>
            \A cp \in RemeshChunks :
                (\A i \in 1..Len(Consumed') : Consumed'[i] # cp)
                    => \A i \in 1..Len(drawables) :
                        drawables[i].position = cp
                            => /\ \E j \in 1..Len(drawables') :
                                    drawables'[j] = drawables[i]
                               /\ drawables[i].vao \in gpuLive']_vars

\* three Drawables were made with vertex arrays 1, 2 and 3; the removal of
\* the first has moved the last into its place, and the chunk removed is the
\* one a drain has just meshed again
C13_Witness ==
    /\ phase = "render"
    /\ VaosOf(drawables) = <<3, 2>>
    /\ gpuLive = {2, 3}
    /\ NoDuplicates(PositionsOf(drawables))
    /\ Len(Consumed) = 1
    /\ \A i \in 1..Len(drawables) : drawables[i].position # Consumed[1]

(***************************************************************************)
(* Retrying.  SpecRetry is the frame loop of a game that does not end,     *)
(* with ticks that deliver at most one block update and no mouse release.  *)
(***************************************************************************)
\* Most block updates one tick delivers in SpecRetry.
MaxRetryDeliveries == 1

NextRetry ==
    \/ \E turn \in Rotations, push \in Velocities : handleInput(turn, push)
    \/ \E gameData \in BOOLEAN, delivered \in Deliveries(MaxRetryDeliveries) :
            update(gameData, delivered)
    \/ render

\* one of the loop's handlers is always due, and weak fairness makes it run
SpecRetry == Init /\ [][NextRetry]_vars /\ WF_vars(NextRetry)

\* C14: Retry liveness.  With one drain per frame, a queued chunk position
\* that is ready (it stays ready: chunks are never unloaded) is consumed by
\* some later drain, whether or not the scheduler was blocked when it became
\* ready.
C14_RetryLiveness ==
    \A cp \in RemeshChunks :
        (hasReceivedGameData /\ cp \in Range(updates)
            /\ hasNeighbours(cp, loaded))
          ~> (AfterDrain /\ cp \in Range(Consumed))

\* C15: Duplicate enqueue is a no-op.  One drain builds at most one mesh,
\* and appends at most one pending buffer, for any one chunk position.
C15_DuplicateEnqueueNoOp ==
    AfterDrain =>
        \A i, j \in 1..Len(bufferables) :
            bufferables[i].blockMesh.position = bufferables[j].blockMesh.position
                => i = j

\* the positions pending in a drain that starts with delivered handed over
\* by its tick: those queued, and those its block updates push
PendingWith(delivered) ==
    Range(ApplyBlockUpdates(blockUpdates \o delivered,
            [loaded |-> loaded, blocks |-> blocks, updates |-> updates]).updates)

\* C16: Drain frame.  After a drain the queue holds only positions that were
\* pending in it, the drain consumed only such positions, and every pending
\* position it did not consume is still in the queue, whether it was not
\* ready, beyond the budget, or moved by the dedup and sort.
C16_DrainFrame ==
    [][\A gameData \in BOOLEAN, delivered \in Deliveries(MaxRetryDeliveries) :
        (update(gameData, delivered) /\ hasReceivedGameData')
            => /\ Range(updates') \subseteq PendingWith(delivered)
               /\ Range(Consumed') \subseteq PendingWith(delivered)
               /\ \A cp \in PendingWith(delivered) :
                    cp \in Range(Consumed') \/ cp \in Range(updates')]_vars

\* a drain of six distinct ready positions stopped on its budget and left
\* one of them in the queue
C16_Witness ==
    /\ AfterDrain
    /\ Len(Consumed) = BUDGET_LIMIT + 2
    /\ Len(updates) = 1
    /\ hasNeighbours(updates[1], loaded)
    /\ NoDuplicates(QueueAtScan)

\* C17: No head-of-line blocking.  A drain that scans leaves a ready entry
\* in the queue only when it has consumed as many entries as the budget of 4
\* before it: entries that are not ready never stop the scan.
C17_NoHeadOfLineBlocking ==
    (AfterDrain /\ scanned) =>
        \A j \in 1..Len(updates) :
            hasNeighbours(updates[j], loaded)
                => Len(Consumed) >= BUDGET_LIMIT + 1

\* a drain has stepped over an entry that is not ready and consumed a ready
\* one that is farther from the viewer, so behind it in the queue
C17_Witness ==
    /\ AfterDrain
    /\ scanned
    /\ \E i \in 1..Len(Consumed), j \in 1..Len(updates) :
            /\ ~hasNeighbours(updates[j], loaded)
            /\ distanceToPlayer(PlayerChunk, updates[j])
                < distanceToPlayer(PlayerChunk, Consumed[i])

\* C18: Old Drawable destroyed first.  From a drain that consumed a chunk
\* position until the next buffer pass, neither registry holds a Drawable of
\* that position: the old ones are all destroyed and removed before the new
\* geometry is uploaded.
C18_OldDrawableDestroyedFirst ==
    AfterDrain =>
        \A i \in 1..Len(Consumed) :
            /\ \A k \in 1..Len(drawables) : drawables[k].position # Consumed[i]
            /\ \A k \in 1..Len(fluidDrawables) :
                    fluidDrawables[k].position # Consumed[i]

\* C19: Blocked soundness.  When a drain has scanned the queue and ends with
\* the blocked flag set, every entry left in the queue is not ready and was
\* counted as such by that scan; so the flag is not set while an entry the
\* scan did not reach, or a ready entry the budget left, is in the queue.
C19_BlockedSoundness ==
    (AfterDrain /\ scanned /\ blockMeshing) =>
        /\ \A j \in 1..Len(updates) : ~hasNeighbours(updates[j], loaded)
        /\ noMeshingCount = Len(updates)

\* a scan has consumed an entry, found the two others not ready and set the
\* blocked flag
C19_Witness ==
    /\ AfterDrain
    /\ scanned
    /\ blockMeshing
    /\ Consumed # << >>
    /\ Len(updates) = 2
    /\ noMeshingCount = 2

\* C20: Mesh only ready chunks.  Every chunk position a drain built a mesh
\* and a pending buffer for has all its six neighbours loaded; and a drain
\* changes the registries and the GPU only when it has built a mesh, so it
\* destroys no Drawable for an entry that is not ready.
C20_MeshOnlyReadyChunks ==
    /\ [](AfterDrain =>
            \A i \in 1..Len(bufferables) :
                /\ hasNeighbours(bufferables[i].blockMesh.position, loaded)
                /\ hasNeighbours(bufferables[i].fluidMesh.position, loaded))
    /\ [][(IsDrain /\ bufferables' = << >>) =>
            /\ drawables' = drawables
            /\ fluidDrawables' = fluidDrawables
            /\ gpuLive' = gpuLive]_vars

\* an edit on two faces of a chunk: the drain has meshed the home chunk and
\* left in the queue the two neighbours, whose own neighbours are not loaded
C20_Witness ==
    /\ AfterDrain
    /\ scanned
    /\ Cardinality(DOMAIN blocks) = 1
    /\ Len(bufferables) = 1
    /\ Len(updates) = 2
    /\ \A j \in 1..Len(updates) :
            /\ ~hasNeighbours(updates[j], loaded)
            /\ updates[j] \in Neighbours(bufferables[1].blockMesh.position)

====
